---- MODULE Spec2Model ----
(***************************************************************************)
(* Model of src/src/quality_checks.py: the DataQualityChecker that audits  *)
(* a pandas DataFrame of sales rows and accumulates issue records and a    *)
(* per-severity ledger.                                                    *)
(*                                                                         *)
(* A cell of the frame is a tagged value: a number, NaN/None/NaT (what     *)
(* isnull() reports), or a text string (what a malformed cell of a numeric *)
(* or date column holds, which makes the column an object column).  Dates  *)
(* are numbers on the same scale as the clock `now`.                       *)
(* An exception leaving a method is modelled by the field `raised` of the  *)
(* checker: the method stops where the exception is thrown and everything  *)
(* it appended before stays.                                               *)
(***************************************************************************)
EXTENDS Integers, Sequences, FiniteSets, TLC

VARIABLES df, now, checker, report, ncalls

vars == <<df, now, checker, report, ncalls>>

(***************************************************************************)
(* Cell values                                                             *)
(***************************************************************************)
Num(v) == [kind |-> "num", val |-> v]
NaN == [kind |-> "nan", val |-> 0]
Str == [kind |-> "str", val |-> 0]

IsNum(x) == x.kind = "num"
IsNull(x) == x.kind = "nan"
IsStr(x) == x.kind = "str"

Nums(s) == [i \in 1..Len(s) |-> Num(s[i])]

IsNegative(x) == IsNum(x) /\ x.val < 0
IsZero(x) == IsNum(x) /\ x.val = 0

\* series.isnull().sum(), (series < 0).sum(), (series == 0).sum()
isnull_sum(s) == Cardinality({i \in 1..Len(s) : IsNull(s[i])})
negative_sum(s) == Cardinality({i \in 1..Len(s) : IsNegative(s[i])})
zero_sum(s) == Cardinality({i \in 1..Len(s) : IsZero(s[i])})

HasStr(s) == \E i \in 1..Len(s) : IsStr(s[i])

Abs(x) == IF x < 0 THEN -x ELSE x

(***************************************************************************)
(* The frame: ordered column names, the row count (len(df)) and one        *)
(* sequence of cells per column.                                           *)
(***************************************************************************)
Has(d, col) == \E i \in 1..Len(d.columns) : d.columns[i] = col

Row(d, r) == [i \in 1..Len(d.columns) |-> d.data[d.columns[i]][r]]

Rows(d) == [r \in 1..d.n |-> Row(d, r)]

\* Faulty variant: every member of a repeated group is marked (keep=False)
duplicated_sum_keep_none(s, i, seen) ==
    Cardinality({j \in 1..Len(s) : \E k \in 1..Len(s) : k # j /\ s[k] = s[j]})

RECURSIVE duplicated_sum(_, _, _)
\* Series.duplicated().sum() / DataFrame.duplicated().sum(): one pass that
\* keeps the values seen so far and marks every later occurrence (keep='first');
\* NaN hashes equal to NaN.
duplicated_sum(s, i, seen) ==
    IF i > Len(s) THEN 0
    ELSE IF s[i] \in seen THEN 1 + duplicated_sum(s, i + 1, seen)
    ELSE duplicated_sum(s, i + 1, seen \cup {s[i]})

(***************************************************************************)
(* The checker object                                                      *)
(***************************************************************************)
Severities == {"CRITICAL", "WARNING", "INFO"}

\* threshold=0.05, as the rational num / den
DefaultThreshold == [num |-> 5, den |-> 100]

\* DataQualityChecker.__init__.  Beside the two attributes the record keeps
\* what a caller can observe of the object's calls: log, the logger.info line
\* each method writes on entry; raised, whether the last call ended in an
\* exception; today, the datetime.now() last read by check_date_validity (NaN
\* while none was read); threshold, the argument of the last
\* check_missing_values call (its default while none was made).
NewChecker ==
    [issues |-> <<>>,
     severity_counts |-> [s \in Severities |-> 0],
     log |-> <<>>,
     raised |-> FALSE,
     today |-> NaN,
     threshold |-> DefaultThreshold]

\* The issue dict; its description, a rendering of the count or ratio, is
\* left out.
Issue(chk, col, sev, cnt) ==
    [check |-> chk, column |-> col, severity |-> sev, count |-> cnt]

\* logger.info at the head of a method; a new call starts with no exception
Enter(self, tag) == [self EXCEPT !.log = Append(@, tag), !.raised = FALSE]

Raise(self) == [self EXCEPT !.raised = TRUE]

\* ---- check_missing_values -------------------------------------------------
\* threshold is the rational threshold.num / threshold.den; null_ratio is
\* nulls / len(df) and both are compared exactly (the doubles of Python order
\* these small ratios the same way).  With len(df) = 0 the ratio is nan and
\* nan > 0 is false.
\* Faulty variant: a ratio equal to the threshold is already critical
missing_severity_ge(nulls, n, threshold) ==
    IF nulls * threshold.den >= threshold.num * n THEN "CRITICAL" ELSE "WARNING"

\* 'CRITICAL' if null_ratio > threshold else 'WARNING'
missing_severity(nulls, n, threshold) ==
    IF nulls * threshold.den > threshold.num * n THEN "CRITICAL" ELSE "WARNING"

RECURSIVE missing_loop(_, _, _, _)
missing_loop(self, d, threshold, i) ==
    IF i > Len(d.columns) THEN self
    ELSE
      LET col == d.columns[i]
          nulls == isnull_sum(d.data[col])
          ratio_pos == d.n > 0 /\ nulls > 0
          severity == missing_severity(nulls, d.n, threshold)
          next == IF ratio_pos
                  THEN [self EXCEPT
                          !.issues = Append(@, Issue("Missing Values", col, severity, nulls)),
                          !.severity_counts[severity] = @ + 1]
                  ELSE self
      IN missing_loop(next, d, threshold, i + 1)

check_missing_values(self, d, threshold) ==
    missing_loop([Enter(self, "missing") EXCEPT !.threshold = threshold], d, threshold, 1)

\* ---- check_duplicates -----------------------------------------------------
\* Faulty variant: the full-row record is booked under the wrong ledger key
dup_full_miscounted(self, d) ==
    LET duplicates == IF Len(d.columns) = 0 THEN 0
                      ELSE duplicated_sum(Rows(d), 1, {})
    IN IF duplicates > 0
       THEN [self EXCEPT
               !.issues = Append(@, Issue("Duplicates", "ALL", "WARNING", duplicates)),
               !.severity_counts["CRITICAL"] = @ + 1]
       ELSE self

dup_full(self, d) ==
    LET duplicates == IF Len(d.columns) = 0 THEN 0
                      ELSE duplicated_sum(Rows(d), 1, {})
    IN IF duplicates > 0
       THEN [self EXCEPT
               !.issues = Append(@, Issue("Duplicates", "ALL", "WARNING", duplicates)),
               !.severity_counts["WARNING"] = @ + 1]
       ELSE self

dup_order_id(self, d) ==
    IF Has(d, "order_id")
    THEN LET order_duplicates == duplicated_sum(d.data["order_id"], 1, {})
         IN IF order_duplicates > 0
            THEN [self EXCEPT
                    !.issues = Append(@, Issue("Duplicates", "order_id", "CRITICAL",
                                               order_duplicates)),
                    !.severity_counts["CRITICAL"] = @ + 1]
            ELSE self
    ELSE self

check_duplicates(self, d) ==
    dup_order_id(dup_full(Enter(self, "duplicates"), d), d)

\* ---- check_data_types -----------------------------------------------------
\* Compares dtype names and only writes warnings to the log: the issue list
\* and the ledger are not touched.
check_data_types(self, d) == Enter(self, "types")

\* ---- check_negative_values ------------------------------------------------
critical_cols == <<"quantity", "unit_price", "total_amount", "final_amount">>

RECURSIVE negative_loop(_, _, _)
negative_loop(self, d, i) ==
    IF i > Len(critical_cols) \/ self.raised THEN self
    ELSE
      LET col == critical_cols[i] IN
      IF ~Has(d, col) THEN negative_loop(self, d, i + 1)
      ELSE IF HasStr(d.data[col])
      \* (self.df[col] < 0) on an object column holding text: TypeError
      THEN Raise(self)
      ELSE
        LET negative_count == negative_sum(d.data[col])
            zero_count == zero_sum(d.data[col])
            s1 == IF negative_count > 0
                  THEN [self EXCEPT
                          !.issues = Append(@, Issue("Negative Values", col, "CRITICAL",
                                                     negative_count)),
                          !.severity_counts["CRITICAL"] = @ + 1]
                  ELSE self
            s2 == IF zero_count > 0 /\ col \in {"unit_price", "total_amount"}
                  THEN [s1 EXCEPT
                          !.issues = Append(@, Issue("Zero Values", col, "WARNING",
                                                     zero_count)),
                          !.severity_counts["WARNING"] = @ + 1]
                  ELSE s1
        IN negative_loop(s2, d, i + 1)

check_negative_values(self, d) == negative_loop(Enter(self, "negative"), d, 1)

\* ---- check_date_validity --------------------------------------------------
\* Faulty variant: a date equal to the evaluation time counts as future
check_date_validity_ge(self, d, t) ==
    LET entered == Enter(self, "dates")
        s0 == [entered EXCEPT !.today = Num(t)]
    IN
    IF ~Has(d, "date") THEN entered
    ELSE IF HasStr(d.data["date"])
    THEN Raise(s0)
    ELSE
      LET dates == d.data["date"]
          future_dates == Cardinality({i \in 1..Len(dates) :
                                         IsNum(dates[i]) /\ dates[i].val >= t})
      IN IF future_dates > 0
         THEN [s0 EXCEPT
                 !.issues = Append(@, Issue("Future Dates", "date", "CRITICAL",
                                            future_dates)),
                 !.severity_counts["CRITICAL"] = @ + 1]
         ELSE s0

\* today is datetime.now(), read once per call: the argument t.
check_date_validity(self, d, t) ==
    LET entered == Enter(self, "dates")
        s0 == [entered EXCEPT !.today = Num(t)]
    IN
    IF ~Has(d, "date") THEN entered
    ELSE IF HasStr(d.data["date"])
    \* (self.df['date'] > today) on a column holding text: TypeError
    THEN Raise(s0)
    ELSE
      LET dates == d.data["date"]
          future_dates == Cardinality({i \in 1..Len(dates) :
                                         IsNum(dates[i]) /\ dates[i].val > t})
      IN IF future_dates > 0
         THEN [s0 EXCEPT
                 !.issues = Append(@, Issue("Future Dates", "date", "CRITICAL",
                                            future_dates)),
                 !.severity_counts["CRITICAL"] = @ + 1]
         ELSE s0

\* ---- check_outliers -------------------------------------------------------
numeric_cols == <<"quantity", "unit_price", "final_amount">>

RECURSIVE Insert(_, _)
Insert(srt, x) ==
    IF srt = <<>> THEN <<x>>
    ELSE IF x <= Head(srt) THEN <<x>> \o srt
    ELSE <<Head(srt)>> \o Insert(Tail(srt), x)

RECURSIVE Sorted(_)
\* The values in ascending order
Sorted(s) == IF s = <<>> THEN <<>> ELSE Insert(Sorted(Tail(s)), Head(s))

\* The numeric cells of a column, in row order (quantile skips NaN)
Values(s) == LET idx == {i \in 1..Len(s) : IsNum(s[i])}
                 pick[k \in 0..Len(s)] ==
                     IF k = 0 THEN <<>>
                     ELSE IF k \in idx THEN Append(pick[k - 1], s[k].val)
                     ELSE pick[k - 1]
             IN pick[Len(s)]

\* Series.quantile(k/4) with linear interpolation, times 4 so that it stays an
\* integer: position (n-1)*k/4 of the sorted values, interpolated between its
\* two neighbours.  Only called on a non-empty sequence.
quantile4(v, k) ==
    LET srt == Sorted(v)
        pos == (Len(v) - 1) * k
        lo == pos \div 4
        fr == pos % 4
    IN IF fr = 0 THEN 4 * srt[lo + 1]
       ELSE 4 * srt[lo + 1] + fr * (srt[lo + 2] - srt[lo + 1])

\* Faulty variant: the conventional fences at 1.5 IQR
outlier_count_narrow(s) ==
    LET v == Values(s) IN
    IF Len(v) = 0 THEN 0
    ELSE LET Q1 == quantile4(v, 1)
             Q3 == quantile4(v, 3)
             IQR == Q3 - Q1
         IN Cardinality({i \in 1..Len(s) :
                /\ IsNum(s[i])
                /\ (8 * s[i].val < 2 * Q1 - 3 * IQR \/ 8 * s[i].val > 2 * Q3 + 3 * IQR)})

\* ((col < lower_bound) | (col > upper_bound)).sum(); with no numeric cell the
\* quartiles are nan and every comparison is false.
outlier_count(s) ==
    LET v == Values(s) IN
    IF Len(v) = 0 THEN 0
    ELSE LET Q1 == quantile4(v, 1)
             Q3 == quantile4(v, 3)
             IQR == Q3 - Q1
             lower_bound == Q1 - 3 * IQR
             upper_bound == Q3 + 3 * IQR
         IN Cardinality({i \in 1..Len(s) :
                /\ IsNum(s[i])
                /\ (4 * s[i].val < lower_bound \/ 4 * s[i].val > upper_bound)})

RECURSIVE outlier_loop(_, _, _)
outlier_loop(self, d, i) ==
    IF i > Len(numeric_cols) \/ self.raised THEN self
    ELSE
      LET col == numeric_cols[i] IN
      IF ~Has(d, col) THEN outlier_loop(self, d, i + 1)
      ELSE IF HasStr(d.data[col])
      \* quantile of an object column holding text: TypeError
      THEN Raise(self)
      ELSE
        LET outliers == outlier_count(d.data[col])
            next == IF outliers > 0
                    THEN [self EXCEPT
                            !.issues = Append(@, Issue("Outliers", col, "INFO", outliers)),
                            !.severity_counts["INFO"] = @ + 1]
                    ELSE self
        IN outlier_loop(next, d, i + 1)

check_outliers(self, d) == outlier_loop(Enter(self, "outliers"), d, 1)

\* ---- check_business_rules -------------------------------------------------
\* Rule 1: |total_amount - quantity * unit_price| > 0.01, on whole amounts
\* (100 * |diff| > 1); a row with a NaN operand compares false.  quantity *
\* unit_price or the subtraction throws on a text cell.
rule_total_amount(self, d) ==
    IF ~(Has(d, "quantity") /\ Has(d, "unit_price") /\ Has(d, "total_amount")) THEN self
    ELSE IF HasStr(d.data["quantity"]) \/ HasStr(d.data["unit_price"])
            \/ HasStr(d.data["total_amount"])
    THEN Raise(self)
    ELSE
      LET q == d.data["quantity"]
          p == d.data["unit_price"]
          t == d.data["total_amount"]
          discrepancy_count ==
              Cardinality({r \in 1..d.n :
                  /\ IsNum(q[r]) /\ IsNum(p[r]) /\ IsNum(t[r])
                  /\ 100 * Abs(t[r].val - q[r].val * p[r].val) > 1})
      IN IF discrepancy_count > 0
         THEN [self EXCEPT
                 !.issues = Append(@, Issue("Business Rule", "total_amount", "CRITICAL",
                                            discrepancy_count)),
                 !.severity_counts["CRITICAL"] = @ + 1]
         ELSE self

\* Faulty variant: the warning already fires at 5% of the rows
rule_profit_ge(self, d) ==
    IF self.raised \/ ~Has(d, "profit") THEN self
    ELSE IF HasStr(d.data["profit"])
    THEN Raise(self)
    ELSE
      LET negative_profit == negative_sum(d.data["profit"])
      IN IF 100 * negative_profit >= 5 * d.n
         THEN [self EXCEPT
                 !.issues = Append(@, Issue("Business Rule", "profit", "WARNING",
                                            negative_profit)),
                 !.severity_counts["WARNING"] = @ + 1]
         ELSE self

\* Rule 2: negative_profit > len(df) * 0.05, compared exactly as
\* 100 * negative_profit > 5 * len(df) (0.05 as a double lies just above 1/20,
\* so the product never rounds below the exact twentieth).
rule_profit(self, d) ==
    IF self.raised \/ ~Has(d, "profit") THEN self
    ELSE IF HasStr(d.data["profit"])
    THEN Raise(self)
    ELSE
      LET negative_profit == negative_sum(d.data["profit"])
      IN IF 100 * negative_profit > 5 * d.n
         THEN [self EXCEPT
                 !.issues = Append(@, Issue("Business Rule", "profit", "WARNING",
                                            negative_profit)),
                 !.severity_counts["WARNING"] = @ + 1]
         ELSE self

check_business_rules(self, d) ==
    rule_profit(rule_total_amount(Enter(self, "rules"), d), d)

\* ---- summary, report, check_all -------------------------------------------
\* What _print_summary logs: the three ledger counts and len(self.issues)
summary(self) ==
    [CRITICAL |-> self.severity_counts["CRITICAL"],
     WARNING |-> self.severity_counts["WARNING"],
     INFO |-> self.severity_counts["INFO"],
     total |-> Len(self.issues)]

print_summary(self) == [self EXCEPT !.log = Append(@, "summary")]

Sentinel == <<[message |-> " Aucun probleme detecte !"]>>

\* Faulty variant: the frame of the issue list, whatever its length
get_report_no_sentinel(self) == self.issues

\* get_report: the rows of the returned DataFrame
get_report(self) ==
    IF self.issues = <<>> THEN Sentinel ELSE self.issues

\* Faulty variant: the date check runs after the outlier check
check_all_swapped(self, d, t) ==
    LET s0 == Enter(self, "check_all")
        s1 == check_missing_values(s0, d, DefaultThreshold)
        s2 == IF s1.raised THEN s1 ELSE check_duplicates(s1, d)
        s3 == IF s2.raised THEN s2 ELSE check_data_types(s2, d)
        s4 == IF s3.raised THEN s3 ELSE check_negative_values(s3, d)
        s5 == IF s4.raised THEN s4 ELSE check_outliers(s4, d)
        s6 == IF s5.raised THEN s5 ELSE check_date_validity(s5, d, t)
        s7 == IF s6.raised THEN s6 ELSE check_business_rules(s6, d)
    IN IF s7.raised THEN s7 ELSE print_summary(s7)

\* Faulty variant: every run starts from an empty issue list and a zeroed ledger
check_all_reset(self, d, t) ==
    LET s0 == Enter([self EXCEPT !.issues = <<>>,
                                 !.severity_counts = [s \in Severities |-> 0]],
                    "check_all")
        s1 == check_missing_values(s0, d, DefaultThreshold)
        s2 == IF s1.raised THEN s1 ELSE check_duplicates(s1, d)
        s3 == IF s2.raised THEN s2 ELSE check_data_types(s2, d)
        s4 == IF s3.raised THEN s3 ELSE check_negative_values(s3, d)
        s5 == IF s4.raised THEN s4 ELSE check_date_validity(s4, d, t)
        s6 == IF s5.raised THEN s5 ELSE check_outliers(s5, d)
        s7 == IF s6.raised THEN s6 ELSE check_business_rules(s6, d)
    IN IF s7.raised THEN s7 ELSE print_summary(s7)

\* check_all: the seven checks in sequence; an exception leaving one of them
\* leaves check_all as well, so the later checks and the summary do not run.
check_all(self, d, t) ==
    LET s0 == Enter(self, "check_all")
        s1 == check_missing_values(s0, d, DefaultThreshold)
        s2 == IF s1.raised THEN s1 ELSE check_duplicates(s1, d)
        s3 == IF s2.raised THEN s2 ELSE check_data_types(s2, d)
        s4 == IF s3.raised THEN s3 ELSE check_negative_values(s3, d)
        s5 == IF s4.raised THEN s4 ELSE check_date_validity(s4, d, t)
        s6 == IF s5.raised THEN s5 ELSE check_outliers(s5, d)
        s7 == IF s6.raised THEN s6 ELSE check_business_rules(s6, d)
    IN IF s7.raised THEN s7 ELSE print_summary(s7)

(***************************************************************************)
(* Bounds                                                                  *)
(***************************************************************************)
MaxCalls == 2
MaxTime == 1
MaxMissRows == 10
MaxProfitRows == 20
MaxDupRows == 3
MaxOutRows == 10

(***************************************************************************)
(* Input frames.  A sales frame as the generator builds it (five rows here) *)
(* with one column dropped, or with anomalies injected into at most two    *)
(* columns, each replaced by one of its variants.                          *)
(***************************************************************************)
Columns == <<"order_id", "date", "quantity", "unit_price", "total_amount",
             "final_amount", "profit", "region">>

Frame(cols, n, data) == [columns |-> cols, n |-> n, data |-> data]

Baseline ==
    Frame(Columns, 5,
          [c \in {Columns[i] : i \in 1..Len(Columns)} |->
             CASE c = "order_id" -> Nums(<<1, 2, 3, 4, 5>>)
               [] c = "date" -> Nums(<<0, 0, 0, 0, 0>>)
               [] c = "quantity" -> Nums(<<1, 1, 1, 1, 1>>)
               [] c = "profit" -> Nums(<<1, 1, 1, 1, 1>>)
               [] c = "region" -> <<Str, Str, Str, Str, Str>>
               [] OTHER -> Nums(<<2, 2, 2, 2, 2>>)])

Variants(c) ==
    CASE c = "order_id" -> {Nums(<<1, 2, 3, 4, 4>>)}
      [] c = "date" -> {Nums(<<0, 0, 0, 1, 2>>), <<Num(0), Num(0), Num(0), Num(0), Str>>,
                        <<Num(0), NaN, Num(0), Num(0), Num(9)>>}
      [] c = "quantity" -> {Nums(<<1, 1, 1, 1, 9>>), Nums(<<1, 1, 1, 1, -1>>),
                            <<Num(1), Str, Num(1), NaN, Num(1)>>}
      [] c = "unit_price" -> {Nums(<<2, 2, 2, 2, 0>>),
                              <<Num(2), Num(2), Num(2), Str, Num(2)>>}
      [] c = "total_amount" -> {Nums(<<2, 2, 2, 0, 0>>),
                                <<NaN, Num(2), Num(2), Num(2), Num(2)>>}
      [] c = "final_amount" -> {Nums(<<2, 2, 2, 2, -30>>),
                                <<Num(2), Num(2), Str, Num(2), Num(2)>>}
      [] c = "profit" -> {Nums(<<1, 1, -1, 1, -1>>),
                          <<Str, Num(1), Num(1), Num(1), Num(1)>>}
      [] OTHER -> {<<Str, NaN, NaN, Str, Str>>}

RECURSIVE Without(_, _)
Without(cols, c) ==
    IF cols = <<>> THEN <<>>
    ELSE IF Head(cols) = c THEN Without(Tail(cols), c)
    ELSE <<Head(cols)>> \o Without(Tail(cols), c)

Drop(d, c) ==
    Frame(Without(d.columns, c), d.n, [x \in (DOMAIN d.data) \ {c} |-> d.data[x]])

\* Column i of the frame replaced by one of its variants
Altered(d, i) == {[d EXCEPT !.data[Columns[i]] = v] : v \in Variants(Columns[i])}

Frames ==
    {Baseline, Frame(<<>>, 0, <<>>)}
    \cup {Drop(Baseline, Columns[i]) : i \in 1..Len(Columns)}
    \cup UNION {Altered(Baseline, i) : i \in 1..Len(Columns)}
    \cup UNION {UNION {Altered(d, j) : d \in Altered(Baseline, i)} :
                  i \in 1..Len(Columns), j \in 1..Len(Columns)}

Thresholds == {DefaultThreshold, [num |-> 1, den |-> 2]}

(***************************************************************************)
(* The state machine: one frame, the wall clock, two checker objects built *)
(* on the frame, the report last returned by get_report.                   *)
(***************************************************************************)
Checkers == {1, 2}

NoReport == [returned |-> FALSE, rows |-> <<>>]

InitWith(S) ==
    /\ df \in S
    /\ now = 0
    /\ checker = [c \in Checkers |-> NewChecker]
    /\ report = NoReport
    /\ ncalls = 0

Init == InitWith(Frames)

\* A method call on checker c that returns self (so the caller holds no
\* report of the checker's present state)
Call(c, after) ==
    /\ ncalls < MaxCalls
    /\ ncalls' = ncalls + 1
    /\ checker' = [checker EXCEPT ![c] = after]
    /\ report' = NoReport
    /\ UNCHANGED <<df, now>>

CheckMissingValues(c) ==
    \E threshold \in Thresholds : Call(c, check_missing_values(checker[c], df, threshold))

CheckDuplicates(c) == Call(c, check_duplicates(checker[c], df))

CheckDataTypes(c) == Call(c, check_data_types(checker[c], df))

CheckNegativeValues(c) == Call(c, check_negative_values(checker[c], df))

CheckDateValidity(c) == Call(c, check_date_validity(checker[c], df, now))

CheckOutliers(c) == Call(c, check_outliers(checker[c], df))

CheckBusinessRules(c) == Call(c, check_business_rules(checker[c], df))

CheckAll(c) == Call(c, check_all(checker[c], df, now))

GetReport(c) ==
    /\ ncalls < MaxCalls
    /\ ncalls' = ncalls + 1
    /\ report' = [returned |-> TRUE, rows |-> get_report(checker[c])]
    /\ UNCHANGED <<df, now, checker>>

\* Time passes between calls
Tick ==
    /\ now < MaxTime
    /\ now' = now + 1
    /\ UNCHANGED <<df, checker, report, ncalls>>

Next ==
    \/ CheckMissingValues(1)
    \/ CheckDuplicates(1)
    \/ CheckDataTypes(1)
    \/ CheckNegativeValues(1)
    \/ CheckDateValidity(1)
    \/ CheckOutliers(1)
    \/ CheckBusinessRules(1)
    \/ CheckAll(1)
    \/ GetReport(1)
    \/ Tick

Spec == Init /\ [][Next]_vars

\* Two checkers built on the same frame, each running the full sequence
NextTwo ==
    \/ CheckAll(1)
    \/ CheckAll(2)
    \/ Tick

SpecTwo == Init /\ [][NextTwo]_vars

(***************************************************************************)
(* Specifications of the single checks, each on frames of the shapes its   *)
(* check distinguishes.                                                    *)
(***************************************************************************)
\* n cells: k of them (all, when k > n) `bad`, at the head (lead) or at the
\* tail, the rest `fill`
Cells(n, k, lead, bad, fill) ==
    [i \in 1..n |-> IF (lead /\ i <= k) \/ (~lead /\ i > n - k) THEN bad ELSE fill]

\* quantity with k1 nulls at the head and region (text) with k2 nulls at the
\* tail, in either column order
MissingFrames ==
    {Frame(cols, n, [c \in {"quantity", "region"} |->
                       IF c = "quantity" THEN Cells(n, k1, TRUE, NaN, Num(1))
                       ELSE Cells(n, k2, FALSE, NaN, Str)]) :
       cols \in {<<"quantity", "region">>, <<"region", "quantity">>},
       n \in 0..MaxMissRows, k1 \in 0..MaxMissRows, k2 \in 0..MaxMissRows}

InitMissing == InitWith(MissingFrames)

SpecMissing == InitMissing /\ [][CheckMissingValues(1)]_vars

\* profit with k losses among n rows, beside a text column, or no profit column
ProfitFrames ==
    {Frame(<<"region", "profit">>, n,
           [c \in {"region", "profit"} |->
              IF c = "profit" THEN Cells(n, k, lead, Num(-1), fill)
              ELSE Cells(n, 0, TRUE, Str, Str)]) :
       n \in 0..MaxProfitRows, k \in 0..MaxProfitRows, lead \in BOOLEAN,
       fill \in {Num(0), Num(1), NaN}}
    \cup {Frame(<<"region">>, n, [c \in {"region"} |-> Cells(n, 0, TRUE, Str, Str)]) :
            n \in 0..MaxProfitRows}

InitProfit == InitWith(ProfitFrames)

SpecProfit == InitProfit /\ [][CheckBusinessRules(1)]_vars

\* every frame of up to MaxDupRows rows over order_id and a text column
DupFrames ==
    UNION {{Frame(cols, n, [c \in {cols[i] : i \in 1..Len(cols)} |->
                              IF c = "order_id" THEN ids ELSE txt]) :
              ids \in [1..n -> {Num(1), Num(2), NaN}], txt \in [1..n -> {Str, NaN}]} :
           cols \in {<<"order_id">>, <<"order_id", "region">>, <<"region">>},
           n \in 0..MaxDupRows}

InitDup == InitWith(DupFrames)

SpecDup == InitDup /\ [][CheckDuplicates(1)]_vars

\* a cells of value 1, b of 2, c of 10, e of 1000 and f NaN, ascending or
\* descending
Mixed(a, b, c, e, f, asc) ==
    LET n == a + b + c + e + f
        up == [i \in 1..n |->
                 IF i <= a THEN Num(1)
                 ELSE IF i <= a + b THEN Num(2)
                 ELSE IF i <= a + b + c THEN Num(10)
                 ELSE IF i <= a + b + c + e THEN Num(1000)
                 ELSE NaN]
    IN IF asc THEN up ELSE [i \in 1..n |-> up[n + 1 - i]]

OutlierColumns ==
    {Nums(<<1, 1, 1, 1, 1>>), Nums(<<9, 1, 1, 1, 1>>), Nums(<<2, 2, -7, 2, 2>>),
     <<Num(1), Str, Num(1), Num(1), Num(9)>>}

\* one numeric column of up to MaxOutRows cells, and five-row frames over two
\* or three of the numeric columns
OutlierFrames ==
    {Frame(<<"region", "quantity">>, a + b + c + e + f,
           [x \in {"region", "quantity"} |->
              IF x = "quantity" THEN Mixed(a, b, c, e, f, asc)
              ELSE Cells(a + b + c + e + f, 0, TRUE, Str, Str)]) :
       a \in 0..MaxOutRows, b \in 0..2, c \in 0..2, e \in 0..2, f \in 0..1,
       asc \in BOOLEAN}
    \cup {Frame(<<"final_amount", "quantity">>, 5,
                [x \in {"final_amount", "quantity"} |->
                   IF x = "quantity" THEN q ELSE fa]) :
            q \in OutlierColumns, fa \in OutlierColumns}
    \cup {Frame(<<"quantity", "unit_price", "final_amount">>, 5,
                [x \in {"quantity", "unit_price", "final_amount"} |->
                   IF x = "quantity" THEN q ELSE IF x = "unit_price" THEN up ELSE fa]) :
            q \in OutlierColumns, up \in OutlierColumns, fa \in OutlierColumns}

InitOutliers == InitWith({d \in OutlierFrames : d.n <= MaxOutRows})

SpecOutliers == InitOutliers /\ [][CheckOutliers(1)]_vars

(***************************************************************************)
(* Properties                                                              *)
(***************************************************************************)
CountSeverity(issues, s) == Cardinality({i \in 1..Len(issues) : issues[i].severity = s})

IsSentinel(rows) == Len(rows) = 1 /\ DOMAIN rows[1] = {"message"}

CheckOrder == <<"check_all", "missing", "duplicates", "types", "negative", "dates",
                "outliers", "rules", "summary">>

IsPrefix(a, b) == Len(a) <= Len(b) /\ \A i \in 1..Len(a) : a[i] = b[i]

\* The place in CheckOrder of the check that writes records with this tag
Rank(chk) ==
    CASE chk = "Missing Values" -> 2
      [] chk = "Duplicates" -> 3
      [] chk \in {"Negative Values", "Zero Values"} -> 5
      [] chk = "Future Dates" -> 6
      [] chk = "Outliers" -> 7
      [] chk = "Business Rule" -> 8

\* The only call made on checker c so far was check_all
OneCheckAll(c) ==
    /\ Len(checker[c].log) > 0
    /\ checker[c].log[1] = "check_all"
    /\ Cardinality({i \in 1..Len(checker[c].log) : checker[c].log[i] = "check_all"}) = 1

\* C1: at every point the ledger count of each severity is the number of
\* issue records of that severity, so the three counts sum to len(issues).
C1_LedgerMatchesIssues ==
    LET self == checker[1] IN
    /\ \A s \in Severities : self.severity_counts[s] = CountSeverity(self.issues, s)
    /\ self.severity_counts["CRITICAL"] + self.severity_counts["WARNING"]
         + self.severity_counts["INFO"] = Len(self.issues)

C1_Witness ==
    /\ ncalls = 2
    /\ \A s \in Severities : checker[1].severity_counts[s] >= 1
    /\ Len(checker[1].issues) >= 4

\* C2: the report just returned by get_report is never empty; it is the
\* sentinel exactly when the issue list is empty, and then the summary total
\* is 0; otherwise it has as many rows as the summary total.
C2_ReportMatchesSummary ==
    report.returned =>
      LET total == summary(checker[1]).total IN
      /\ Len(report.rows) >= 1
      /\ IsSentinel(report.rows) <=> checker[1].issues = <<>>
      /\ IsSentinel(report.rows) => total = 0
      /\ ~IsSentinel(report.rows) => Len(report.rows) = total

C2_Witness ==
    /\ report.returned
    /\ IsSentinel(report.rows)
    /\ Len(checker[1].log) > 0

\* C3: after one check_all on a fresh checker the checks were entered in the
\* fixed order (all seven and the summary when no exception left check_all)
\* and no record of a later check precedes a record of an earlier check.
C3_CheckOrder ==
    (ncalls = 1 /\ OneCheckAll(1)) =>
      LET self == checker[1] IN
      /\ IsPrefix(self.log, CheckOrder)
      /\ ~self.raised => self.log = CheckOrder
      /\ \A i, j \in 1..Len(self.issues) :
           i < j => Rank(self.issues[i].check) <= Rank(self.issues[j].check)

C3_Witness ==
    /\ ncalls = 1
    /\ checker[1].log = CheckOrder
    /\ Cardinality({Rank(checker[1].issues[i].check) : i \in 1..Len(checker[1].issues)}) >= 3
    /\ \E i \in 1..Len(checker[1].issues) : checker[1].issues[i].check = "Future Dates"
    /\ \E i \in 1..Len(checker[1].issues) : checker[1].issues[i].check = "Outliers"

\* C4: check_all never raises: it runs the seven checks and the summary to
\* completion on every frame.
C4_CheckAllNeverRaises ==
    (ncalls = 1 /\ OneCheckAll(1)) =>
      ~checker[1].raised /\ checker[1].log = CheckOrder

\* Every call made on checker c so far was check_all
OnlyCheckAll(c) ==
    /\ ncalls >= 1
    /\ Cardinality({i \in 1..Len(checker[c].log) : checker[c].log[i] = "check_all"}) = ncalls

\* The rows of the frame whose date is after time t
FutureRows(d, t) ==
    IF Has(d, "date")
    THEN {r \in 1..d.n : d.data["date"][r].kind = "num" /\ d.data["date"][r].val > t}
    ELSE {}

RECURSIVE Repeat(_, _)
Repeat(s, k) == IF k = 0 THEN <<>> ELSE s \o Repeat(s, k - 1)

\* C5 as stated: after k consecutive check_all calls the issue list is the
\* first run's issue list repeated k times and every ledger count is k times
\* its value after the first run.
C5_RerunRepeatsSingleRun ==
    OnlyCheckAll(1) =>
      \E m \in 0..Len(checker[1].issues) :
        LET single == SubSeq(checker[1].issues, 1, m) IN
        /\ checker[1].issues = Repeat(single, ncalls)
        /\ \A s \in Severities :
             checker[1].severity_counts[s] = ncalls * CountSeverity(single, s)

\* C5 amended: when no date of the frame passed from future to past between
\* the construction of the checker and the last run, k consecutive check_all calls leave the issue list of a
\* single run (that of a new checker on the frame) repeated k times, and
\* every ledger count k times its single-run value.
C5_RerunRepeatsWhileDatesStay ==
    (OnlyCheckAll(1) /\ FutureRows(df, 0) = FutureRows(df, now)) =>
      LET once == check_all(NewChecker, df, now) IN
      /\ checker[1].issues = Repeat(once.issues, ncalls)
      /\ \A s \in Severities :
           checker[1].severity_counts[s] = ncalls * once.severity_counts[s]

C5_Witness ==
    /\ OnlyCheckAll(1)
    /\ ncalls >= 2
    /\ now >= 1
    /\ FutureRows(df, now) # {}
    /\ FutureRows(df, 0) = FutureRows(df, now)
    /\ Len(checker[1].issues) >= 4

\* Both checkers ran check_all exactly once
BothRanOnce ==
    \A c \in Checkers :
      Cardinality({i \in 1..Len(checker[c].log) : checker[c].log[i] = "check_all"}) = 1

\* C6 as stated: two checkers on the same frame end with identical issue
\* lists and ledgers, whenever the two runs happen.
C6_TwoRunsAgree ==
    BothRanOnce =>
      /\ checker[1].issues = checker[2].issues
      /\ checker[1].severity_counts = checker[2].severity_counts

\* C6 amended: two checkers on the same frame end with identical issue lists
\* and ledgers when the same rows are dated after the evaluation time of
\* either run's date check.
C6_TwoRunsAgreeOnSameFuture ==
    (/\ BothRanOnce
     /\ (IsNum(checker[1].today) /\ IsNum(checker[2].today)) =>
          FutureRows(df, checker[1].today.val) = FutureRows(df, checker[2].today.val)) =>
      /\ checker[1].issues = checker[2].issues
      /\ checker[1].severity_counts = checker[2].severity_counts

C6_Witness ==
    /\ BothRanOnce
    /\ IsNum(checker[1].today) /\ IsNum(checker[2].today)
    /\ checker[1].today # checker[2].today
    /\ FutureRows(df, checker[1].today.val) = FutureRows(df, checker[2].today.val)
    /\ FutureRows(df, checker[1].today.val) # {}
    /\ Len(checker[1].issues) >= 3

\* The place of column c in the frame
ColumnIndex(d, c) == CHOOSE i \in 1..Len(d.columns) : d.columns[i] = c

NullRows(d, c) == {r \in 1..d.n : d.data[c][r] = NaN}

\* C7: check_missing_values(threshold) appends one record per column that
\* has a null, in column order and none for the other columns; its count is
\* the column's number of null rows and its severity is CRITICAL when
\* nulls / rows > threshold, WARNING otherwise.
C7_MissingRecords ==
    (ncalls = 1 /\ checker[1].log = <<"missing">>) =>
      LET iss == checker[1].issues
          th == checker[1].threshold
          Affected == {i \in 1..Len(df.columns) : NullRows(df, df.columns[i]) # {}}
      IN
      /\ Len(iss) = Cardinality(Affected)
      /\ \A i \in 1..Len(iss) :
           /\ iss[i].check = "Missing Values"
           /\ ColumnIndex(df, iss[i].column) \in Affected
           /\ iss[i].count = Cardinality(NullRows(df, iss[i].column))
           /\ iss[i].severity =
                (IF iss[i].count * th.den > th.num * df.n THEN "CRITICAL" ELSE "WARNING")
      /\ \A i, j \in 1..Len(iss) :
           i < j => ColumnIndex(df, iss[i].column) < ColumnIndex(df, iss[j].column)
      /\ (df.n = 10 /\ th = DefaultThreshold /\ Cardinality(NullRows(df, "quantity")) = 1
          /\ NullRows(df, "region") = {}) =>
           iss = <<Issue("Missing Values", "quantity", "CRITICAL", 1)>>

\* Five nulls in ten rows at threshold 0.5: the ratio equals the threshold
C7_Witness ==
    /\ ncalls = 1
    /\ df.n = 10
    /\ checker[1].threshold = [num |-> 1, den |-> 2]
    /\ Len(checker[1].issues) = 2
    /\ checker[1].issues[1] = Issue("Missing Values", "region", "CRITICAL", 6)
    /\ checker[1].issues[2] = Issue("Missing Values", "quantity", "WARNING", 5)

LossRows(d) ==
    IF Has(d, "profit")
    THEN {r \in 1..d.n : d.data["profit"][r].kind = "num" /\ d.data["profit"][r].val < 0}
    ELSE {}

\* C8: on a frame without text in profit, the profitability rule appends one
\* WARNING record on profit, with the number of loss rows, exactly when that
\* number is more than 5% of the rows; at 5% or below, or with no rows or no
\* profit column, it appends nothing.
C8_ProfitRule ==
    (ncalls = 1 /\ checker[1].log = <<"rules">>) =>
      LET losses == Cardinality(LossRows(df)) IN
      /\ 20 * losses > df.n =>
           checker[1].issues = <<Issue("Business Rule", "profit", "WARNING", losses)>>
      /\ 20 * losses <= df.n => checker[1].issues = <<>>

\* Exactly 5%: one loss in twenty rows, and no record
C8_Witness ==
    /\ ncalls = 1
    /\ df.n = 20
    /\ Cardinality(LossRows(df)) = 1
    /\ checker[1].issues = <<>>
    /\ checker[1].log = <<"rules">>

\* Rows beyond the first occurrence: the rows less the distinct values
Repeats(s) == Len(s) - Cardinality({s[i] : i \in 1..Len(s)})

\* C9: check_duplicates appends, full-row record first, one WARNING record on
\* ALL iff a row equals an earlier row and, with an order_id column, one
\* CRITICAL record on order_id iff an order_id occurs again; each count is
\* the number of rows that repeat an earlier one.
C9_DuplicateRecords ==
    (ncalls = 1 /\ checker[1].log = <<"duplicates">>) =>
      LET full == Repeats(Rows(df))
          ids == IF Has(df, "order_id") THEN Repeats(df.data["order_id"]) ELSE 0
      IN checker[1].issues =
           (IF full > 0 THEN <<Issue("Duplicates", "ALL", "WARNING", full)>> ELSE <<>>)
           \o (IF ids > 0 THEN <<Issue("Duplicates", "order_id", "CRITICAL", ids)>>
               ELSE <<>>)

\* Three rows share an order_id, two of them are equal in every column
C9_Witness ==
    /\ ncalls = 1
    /\ checker[1].issues = <<Issue("Duplicates", "ALL", "WARNING", 1),
                             Issue("Duplicates", "order_id", "CRITICAL", 2)>>

\* The numeric rows of column c and the k-th smallest of their values
\* (k = 0 for the smallest), by rank
NumRows(d, c) == {r \in 1..d.n : d.data[c][r].kind = "num"}

Kth(d, c, k) ==
    CHOOSE v \in {d.data[c][r].val : r \in NumRows(d, c)} :
      /\ Cardinality({r \in NumRows(d, c) : d.data[c][r].val < v}) <= k
      /\ Cardinality({r \in NumRows(d, c) : d.data[c][r].val <= v}) > k

\* Four times the quartile k/4 of column c: linear interpolation at position
\* (n - 1) * k / 4 of the ordered values
Quartile4(d, c, k) ==
    LET pos == (Cardinality(NumRows(d, c)) - 1) * k
        lo == pos \div 4
        w == pos % 4
    IN IF w = 0 THEN 4 * Kth(d, c, lo)
       ELSE (4 - w) * Kth(d, c, lo) + w * Kth(d, c, lo + 1)

\* The rows of column c strictly outside [Q1 - 3 IQR, Q3 + 3 IQR]
Flagged(d, c) ==
    IF NumRows(d, c) = {} THEN {}
    ELSE LET q1 == Quartile4(d, c, 1)
             q3 == Quartile4(d, c, 3)
         IN {r \in NumRows(d, c) :
               \/ 4 * d.data[c][r].val < q1 - 3 * (q3 - q1)
               \/ 4 * d.data[c][r].val > q3 + 3 * (q3 - q1)}

OutlierRecord(d, c) ==
    IF Has(d, c) /\ Flagged(d, c) # {}
    THEN <<Issue("Outliers", c, "INFO", Cardinality(Flagged(d, c)))>>
    ELSE <<>>

\* C10: on numeric columns check_outliers appends, for quantity, unit_price
\* and final_amount in that order, one INFO record with the number of values
\* strictly outside [Q1 - 3 IQR, Q3 + 3 IQR] iff that number is positive;
\* with Q1 = Q3 every value other than Q1 is counted, and nine 1s with one
\* 1000 give a count of 1.
C10_OutlierRecords ==
    (ncalls = 1 /\ checker[1].log = <<"outliers">> /\ ~checker[1].raised) =>
      /\ checker[1].issues =
           OutlierRecord(df, "quantity") \o OutlierRecord(df, "unit_price")
             \o OutlierRecord(df, "final_amount")
      /\ \A i \in 1..Len(checker[1].issues) :
           LET c == checker[1].issues[i].column IN
           Quartile4(df, c, 1) = Quartile4(df, c, 3) =>
             checker[1].issues[i].count =
               Cardinality({r \in NumRows(df, c) :
                              4 * df.data[c][r].val # Quartile4(df, c, 1)})
      /\ (Has(df, "quantity") /\ df.data["quantity"] = Mixed(9, 0, 0, 1, 0, TRUE)) =>
           checker[1].issues = <<Issue("Outliers", "quantity", "INFO", 1)>>

C10_Witness ==
    /\ ncalls = 1
    /\ Has(df, "quantity")
    /\ df.data["quantity"] = Mixed(9, 0, 0, 1, 0, TRUE)
    /\ checker[1].issues = <<Issue("Outliers", "quantity", "INFO", 1)>>

====
